---- MODULE Spec2Model ----
(***************************************************************************)
(* A model of defg (src/defg.js): extraction of documentation blocks from  *)
(* source lines, the search over all orderings of the blocks for the one   *)
(* closest to the existing README, the lockstep aligner that scores one    *)
(* ordering and carries special README lines into it, and the diff that    *)
(* is written back as the new README.                                      *)
(*                                                                         *)
(* Text is modelled as a sequence of one-character strings, so that trim,  *)
(* split, join and the regular expressions are computed as the code        *)
(* computes them.                                                          *)
(***************************************************************************)
EXTENDS Integers, Sequences, FiniteSets, TLC

VARIABLES
  pc,         \* position in the program
  lines,      \* xtract_1: the lines of the file being read
  li,         \* xtract_1: number of lines already handled by lines.map
  active,     \* xtract_1: index in docblocks of the active block, 0 for null
  prior,      \* history: docblocks as it was when xtract_1 was called
  docblocks,  \* the extracted blocks, each a sequence of lines
  readmeFile, \* the README on disk: its text, or NoFile
  readme,     \* main: the result of readreadme: trimmed text, or NullText
  rlines,     \* regen_readme: the README split into lines
  chosen,     \* regen_readme: chosen[i], "undefined" until first written
  perm,       \* regen_readme: the ordering being built, as block indices
  stack,      \* gen_1: the loop variable i of every active gen_1 frame
  data,       \* find_min_1: the working sequence of lines
  nd,         \* find_min_1: cursor into data (0-based, as in the code)
  nr,         \* find_min_1: cursor into rlines (0-based, as in the code)
  dist,       \* find_min_1: accumulated distance
  min,        \* regen_readme: [dist, data], dist = NullDist until first set
  dists,      \* regen_readme: distances of the completed evaluations
  diff,       \* the parts handed to saveReadme
  calls,      \* history: perm at every invocation of the callback
  branch      \* history: the branch the last aligner iteration took

vars == <<pc, lines, li, active, prior, docblocks, readmeFile, readme, rlines,
          chosen, perm, stack, data, nd, nr, dist, min, dists, diff, calls,
          branch>>

(***************************************************************************)
(* Text helpers: String.prototype.trim, split(/[\r\n]/g), join.            *)
(***************************************************************************)
NL == "\n"

\* the characters trim() removes, among those of the model's alphabet
WhiteSpace == {" ", "\t", "\n", "\r"}

RECURSIVE TrimLeft(_)
TrimLeft(s) ==
  IF s = <<>> THEN <<>>
  ELSE IF Head(s) \in WhiteSpace THEN TrimLeft(Tail(s)) ELSE s

RECURSIVE TrimRight(_)
TrimRight(s) ==
  IF s = <<>> THEN <<>>
  ELSE IF s[Len(s)] \in WhiteSpace THEN TrimRight(SubSeq(s, 1, Len(s) - 1))
  ELSE s

Trim(s) == TrimRight(TrimLeft(s))

\* s.split(/[\r\n]/g): always at least one piece, empty pieces kept
RECURSIVE SplitFrom(_, _)
SplitFrom(s, cur) ==
  IF s = <<>> THEN <<cur>>
  ELSE IF Head(s) \in {"\n", "\r"} THEN <<cur>> \o SplitFrom(Tail(s), <<>>)
  ELSE SplitFrom(Tail(s), Append(cur, Head(s)))

SplitLines(s) == SplitFrom(s, <<>>)

\* ls.join("\n")
RECURSIVE JoinNL(_)
JoinNL(ls) ==
  IF ls = <<>> THEN <<>>
  ELSE IF Len(ls) = 1 THEN ls[1]
  ELSE ls[1] \o <<NL>> \o JoinNL(Tail(ls))

\* parts.join("")
RECURSIVE Concat(_)
Concat(ps) == IF ps = <<>> THEN <<>> ELSE Head(ps) \o Concat(Tail(ps))

(***************************************************************************)
(* isSplLine: an image reference alone on its line, or a line that starts  *)
(* with < and ends with >, both with optional surrounding blanks.          *)
(***************************************************************************)
AllIn(l, from, to, S) == \A k \in from..to : l[k] \in S

\* /^[ \t]*[!]\[.*\]\([^)]*\)[ \t\n]*$/
IsImageLine(l) ==
  \E p \in 1..Len(l) : \E j \in (p + 2)..Len(l) : \E m \in (j + 2)..Len(l) :
    /\ AllIn(l, 1, p - 1, {" ", "\t"})
    /\ l[p] = "!"
    /\ l[p + 1] = "["
    /\ \A k \in (p + 2)..(j - 1) : l[k] \notin {"\n", "\r"}
    /\ l[j] = "]"
    /\ l[j + 1] = "("
    /\ \A k \in (j + 2)..(m - 1) : l[k] # ")"
    /\ l[m] = ")"
    /\ AllIn(l, m + 1, Len(l), {" ", "\t", "\n"})

\* /^[ \t]*<.*>[ \t\n]*$/
IsTagLine(l) ==
  \E p \in 1..Len(l) : \E j \in (p + 1)..Len(l) :
    /\ AllIn(l, 1, p - 1, {" ", "\t"})
    /\ l[p] = "<"
    /\ \A k \in (p + 1)..(j - 1) : l[k] \notin {"\n", "\r"}
    /\ l[j] = ">"
    /\ AllIn(l, j + 1, Len(l), {" ", "\t", "\n"})

isSplLine(l) == IsImageLine(l) \/ IsTagLine(l)

(***************************************************************************)
(* xtract_doc_comment_1: the payload of a documentation line, or NullText. *)
(***************************************************************************)
\* the value null where a text is expected; no text has this shape
NullText == <<"null">>

\* [/#][/#]\*\* matched at position p
MarkerAt(l, p) ==
  /\ p + 3 <= Len(l)
  /\ l[p] \in {"/", "#"}
  /\ l[p + 1] \in {"/", "#"}
  /\ l[p + 2] = "*"
  /\ l[p + 3] = "*"

\* /[/#][/#]\*\* ?$/
EndsWithMarker(l) ==
  \E p \in 1..Len(l) :
    /\ MarkerAt(l, p)
    /\ \/ p + 3 = Len(l)
       \/ (p + 4 = Len(l) /\ l[p + 4] = " ")

\* positions where /[/#][/#]\*\* (.*)/ can match; the leftmost one is taken
MarkerSpaceAt(l) == {p \in 1..Len(l) : MarkerAt(l, p) /\ p + 4 <= Len(l) /\ l[p + 4] = " "}

SetMin(S) == CHOOSE x \in S : \A y \in S : x <= y

xtract_doc_comment_1(l) ==
  IF EndsWithMarker(l) THEN <<>>
  ELSE IF MarkerSpaceAt(l) # {}
       THEN SubSeq(l, SetMin(MarkerSpaceAt(l)) + 5, Len(l))
       ELSE NullText

(***************************************************************************)
(* xtract_1: one call of the lines.map callback.  active is a reference to *)
(* a block held in docblocks, so it is modelled as that block's index.     *)
(***************************************************************************)
\* a variant that leaves active as it is on a line that is no documentation
xtract_1_line_keepsActive(blocks, act, l) ==
  LET doc == xtract_doc_comment_1(l) IN
  IF doc = NullText
  THEN [docblocks |-> blocks, active |-> act]
  ELSE IF act = 0
       THEN [docblocks |-> Append(blocks, <<doc>>), active |-> Len(blocks) + 1]
       ELSE [docblocks |-> [blocks EXCEPT ![act] = Append(@, doc)], active |-> act]

xtract_1_line(blocks, act, l) ==
  LET doc == xtract_doc_comment_1(l) IN
  IF doc = NullText
  THEN [docblocks |-> blocks, active |-> 0]
  ELSE IF act = 0
       THEN [docblocks |-> Append(blocks, <<doc>>), active |-> Len(blocks) + 1]
       ELSE [docblocks |-> [blocks EXCEPT ![act] = Append(@, doc)], active |-> act]

(***************************************************************************)
(* asDiff, Diff.diffLines and the filter of saveReadme.                    *)
(***************************************************************************)
Flatten(blocks) == Concat(blocks)

Part(f, a, r, v) == [fresh |-> f, added |-> a, removed |-> r, value |-> v]

asDiff(blocks) ==
  LET ls == Flatten(blocks) IN
  [k \in 1..Len(ls) |-> Part(TRUE, FALSE, FALSE, ls[k] \o <<NL>>)]

\* the line tokens of diffLines: every line keeps its terminator, and there
\* is no token for the empty rest after a final newline
RECURSIVE TokFrom(_, _)
TokFrom(s, cur) ==
  IF s = <<>> THEN (IF cur = <<>> THEN <<>> ELSE <<cur>>)
  ELSE IF Head(s) = NL THEN <<Append(cur, NL)>> \o TokFrom(Tail(s), <<>>)
  ELSE TokFrom(Tail(s), Append(cur, Head(s)))

Tokenize(s) == TokFrom(s, <<>>)

Changes(ops) == Cardinality({k \in 1..Len(ops) : ops[k].added \/ ops[k].removed})

\* a shortest edit script from the old tokens to the new ones
RECURSIVE EditScript(_, _)
EditScript(o, n) ==
  IF o = <<>> THEN [k \in 1..Len(n) |-> Part(FALSE, TRUE, FALSE, n[k])]
  ELSE IF n = <<>> THEN [k \in 1..Len(o) |-> Part(FALSE, FALSE, TRUE, o[k])]
  ELSE IF Head(o) = Head(n)
       THEN <<Part(FALSE, FALSE, FALSE, Head(n))>> \o EditScript(Tail(o), Tail(n))
       ELSE LET del == <<Part(FALSE, FALSE, TRUE, Head(o))>> \o EditScript(Tail(o), n)
                ins == <<Part(FALSE, TRUE, FALSE, Head(n))>> \o EditScript(o, Tail(n))
            IN IF Changes(del) <= Changes(ins) THEN del ELSE ins

\* consecutive tokens of one kind form one part
RECURSIVE MergeParts(_)
MergeParts(ops) ==
  IF Len(ops) <= 1 THEN ops
  ELSE LET rest == MergeParts(Tail(ops)) IN
       IF Head(ops).added = Head(rest).added /\ Head(ops).removed = Head(rest).removed
       THEN <<[Head(rest) EXCEPT !.value = Head(ops).value \o @]>> \o Tail(rest)
       ELSE <<Head(ops)>> \o rest

diffLines(old, new) == MergeParts(EditScript(Tokenize(old), Tokenize(new)))

\* a variant that pushes no added part
RECURSIVE KeptValues_dropsAdded(_)
KeptValues_dropsAdded(parts) ==
  IF parts = <<>> THEN <<>>
  ELSE IF Head(parts).fresh \/ (~Head(parts).removed /\ ~Head(parts).added)
       THEN <<Head(parts).value>> \o KeptValues_dropsAdded(Tail(parts))
       ELSE KeptValues_dropsAdded(Tail(parts))

\* saveReadme pushes the value of every part that is fresh or not removed
RECURSIVE KeptValues(_)
KeptValues(parts) ==
  IF parts = <<>> THEN <<>>
  ELSE IF Head(parts).fresh \/ ~Head(parts).removed
       THEN <<Head(parts).value>> \o KeptValues(Tail(parts))
       ELSE KeptValues(Tail(parts))

saveReadme(parts) == Trim(Concat(KeptValues(parts)))

(***************************************************************************)
(* readsafely                                                              *)
(***************************************************************************)
\* the README does not exist (ENOENT); no text has this shape
NoFile == <<"ENOENT">>

readsafely(f) == IF f = NoFile THEN NullText ELSE Trim(f)

(***************************************************************************)
(* find_min_1: one iteration of the while loop, as a function of the       *)
(* locals.  Cursors are 0-based as in the code; sequences are 1-based.     *)
(***************************************************************************)
maxLookAhead == 7

NoMatchPenalty == 2

\* min.dist before the first completed evaluation
NullDist == -1

\* the for loop of the look-ahead, from i on: the i it ends with, and the
\* side on which the match was found
\* a variant that looks one line further: i <= maxLookAhead
InWindow_wide(i) == i <= maxLookAhead

\* the condition of the for loop: i < maxLookAhead
InWindow(i) == i < maxLookAhead

RECURSIVE LookAhead(_, _, _, _, _)
LookAhead(d, r, n_d, n_r, i) ==
  IF ~InWindow(i) THEN [i |-> i, side |-> "none"]
  ELSE IF n_r + i < Len(r) /\ r[n_r + i + 1] = d[n_d + 1]
       THEN [i |-> i, side |-> "ref"]
  ELSE IF n_d + i < Len(d) /\ d[n_d + i + 1] = r[n_r + 1]
       THEN [i |-> i, side |-> "data"]
  ELSE LookAhead(d, r, n_d, n_r, i + 1)

\* a variant that carries every README line into data
RefLineKept_any(lr) == TRUE

\* !lr || isSplLine(lr): the README line is carried into data
RefLineKept(lr) == lr = <<>> \/ isSplLine(lr)

\* !ld || isSplLine(ld): the data line is passed over
DataLineSkipped(ld) == ld = <<>> \/ isSplLine(ld)

InsertAt(d, n_d, l) == SubSeq(d, 1, n_d) \o <<l>> \o SubSeq(d, n_d + 1, Len(d))

AlignIter(d, r, n_d, n_r, dst) ==
  LET ld == d[n_d + 1]
      lr == r[n_r + 1]
  IN
  IF ld = lr
  THEN [data |-> d, nd |-> n_d + 1, nr |-> n_r + 1, dist |-> dst, branch |-> "match"]
  ELSE IF DataLineSkipped(ld)
  THEN [data |-> d, nd |-> n_d + 1, nr |-> n_r, dist |-> dst, branch |-> "skipdata"]
  ELSE IF RefLineKept(lr)
  THEN [data |-> InsertAt(d, n_d, lr), nd |-> n_d + 1, nr |-> n_r + 1, dist |-> dst,
        branch |-> "insert"]
  ELSE LET la == LookAhead(d, r, n_d, n_r, 1) IN
       [data   |-> d,
        nd     |-> n_d + (IF la.side = "data" THEN la.i ELSE 0) + 1,
        nr     |-> n_r + (IF la.side = "ref" THEN la.i ELSE 0) + 1,
        dist   |-> dst + (IF la.side = "none" THEN 0 ELSE la.i)
                       + (IF la.i = maxLookAhead THEN NoMatchPenalty ELSE 0),
        branch |-> IF la.side = "none" THEN "nomatch" ELSE "lookahead"]

\* the while condition
InRange(d, r, n_d, n_r) == n_d < Len(d) /\ n_r < Len(r)

\* a variant that never gives up an evaluation
ShouldAbort_never(dst, mindist) == FALSE

\* a variant that also gives up on a tie: dist >= min.dist
ShouldAbort_onTie(dst, mindist) == mindist # NullDist /\ dst >= mindist

\* min.dist != null && dist > min.dist
ShouldAbort(dst, mindist) == mindist # NullDist /\ dst > mindist

\* the blocks of perm, concatenated
PermData(blocks, p) == Flatten([k \in 1..Len(p) |-> blocks[p[k]]])

(***************************************************************************)
(* Inputs.                                                                 *)
(***************************************************************************)
MaxLines == 2        \* lines in all blocks together
MaxReadmeLines == 2  \* lines of the README on disk
MaxFileLines == 4    \* lines of a source file

LE == <<>>
LA == <<"a">>
LB == <<"b">>
LTag == <<"<", ">">>
LImg == <<"!", "[", "]", "(", ")">>
LSpA == <<" ", "a">>

LineSet == {LE, LA, LB, LTag}

SeqsOfLen(S, lo, hi) == UNION {[1..k -> S] : k \in lo..hi}

\* f cut into blocks after the positions in cuts
RECURSIVE CutAt(_, _, _)
CutAt(f, cuts, from) ==
  LET later == {c \in cuts : c >= from} IN
  IF later = {} THEN <<SubSeq(f, from, Len(f))>>
  ELSE <<SubSeq(f, from, SetMin(later))>> \o CutAt(f, cuts, SetMin(later) + 1)

\* every list of non-empty blocks with at most MaxLines lines in all
BlockLists ==
  {<<>>} \cup
  UNION {{CutAt(f, cuts, 1) : cuts \in SUBSET (1..(Len(f) - 1))} :
           f \in SeqsOfLen(LineSet, 1, MaxLines)}

ReadmeFiles ==
  {NoFile} \cup {JoinNL(ls) : ls \in SeqsOfLen(LineSet, 1, MaxReadmeLines)}

Rep(l, k) == [j \in 1..k |-> l]

\* longer inputs: the README example with an image, matches at and beyond
\* the end of the look-ahead window, text with blanks at its ends
LongInputs ==
  { [blocks |-> <<<<LA>>, <<LB>>>>, file |-> JoinNL(<<LA, LImg, LB>>)],
    [blocks |-> <<<<LA>>, <<LB>>>>, file |-> JoinNL(<<LA, LB, LImg>>)],
    [blocks |-> <<<<LA>>>>, file |-> JoinNL(Rep(LB, 6) \o <<LA>>)],
    [blocks |-> <<<<LA>>>>, file |-> JoinNL(Rep(LB, 7) \o <<LA>>)],
    [blocks |-> <<Rep(LB, 6) \o <<LA>>>>, file |-> JoinNL(<<LA>>)],
    [blocks |-> <<Rep(LB, 7) \o <<LA>>>>, file |-> JoinNL(<<LA>>)],
    [blocks |-> <<<<LA>>, <<LB>>>>, file |-> JoinNL(<<LB, LTag, LA, LTag, LB>>)],
    [blocks |-> <<<<LSpA, LE>>, <<LB>>>>, file |-> NoFile],
    [blocks |-> <<<<LSpA, LE>>, <<LB>>>>, file |-> JoinNL(<<LB, LSpA>>)],
    [blocks |-> <<<<LSpA>>>>, file |-> <<" ", NL>>] }

\* three blocks of one line each, against every README of two lines
ThreeBlockInputs ==
  {[blocks |-> <<<<x>>, <<y>>, <<z>>>>, file |-> JoinNL(<<u, v>>)] :
     x \in LineSet, y \in LineSet, z \in LineSet, u \in LineSet, v \in LineSet}

Inputs ==
  {[blocks |-> bl, file |-> f] : bl \in BlockLists, f \in ReadmeFiles}
    \cup ThreeBlockInputs \cup LongInputs

\* raw source lines: documentation lines of every shape, and others
RawLineSet ==
  { <<"x">>,
    <<"/", "/", "*", "*", " ", "a">>,
    <<"#", "#", "*", "*", " ", "b">>,
    <<"/", "/", "*", "*">>,
    <<"/", "/", "*", "*", " ">>,
    <<"/", "/", "*", "*", "x">>,
    <<"x", "/", "#", "*", "*", " ", " ", "/", "/", "*", "*", " ", "a">> }

PriorBlockLists == {<<>>, <<<<LA>>>>}

(***************************************************************************)
(* The state at the start.                                                 *)
(***************************************************************************)
RegenIdle ==
  /\ rlines = <<>> /\ chosen = <<>> /\ perm = <<>> /\ stack = <<>>
  /\ data = <<>> /\ nd = 0 /\ nr = 0 /\ dist = 0
  /\ min = [dist |-> NullDist, data |-> <<>>]
  /\ dists = <<>> /\ diff = <<>> /\ calls = <<>> /\ branch = "none"

\* main, at its call of readreadme, with the blocks xtractUserDocz will find
Init ==
  /\ pc = "main"
  /\ \E in \in Inputs : docblocks = in.blocks /\ readmeFile = in.file
  /\ lines = <<>> /\ li = 0 /\ active = 0 /\ prior = <<>>
  /\ readme = NullText
  /\ RegenIdle

\* xtract_1, called on one file with the blocks of the files before it
InitXtract ==
  /\ pc = "xtract_1"
  /\ lines \in SeqsOfLen(RawLineSet, 0, MaxFileLines)
  /\ prior \in PriorBlockLists
  /\ docblocks = prior
  /\ li = 0 /\ active = 0
  /\ readmeFile = NoFile /\ readme = NullText
  /\ RegenIdle

(***************************************************************************)
(* xtract_1                                                                *)
(***************************************************************************)
xtractVars == <<lines, prior>>
regenVars == <<rlines, chosen, perm, stack, data, nd, nr, dist, min, dists, calls, branch>>
mainVars == <<readmeFile, readme, diff>>

XtractLine(kind) ==
  /\ li < Len(lines)
  /\ LET l == lines[li + 1]
         doc == xtract_doc_comment_1(l)
         res == xtract_1_line(docblocks, active, l)
     IN /\ kind = (IF doc = NullText THEN "close" ELSE IF active = 0 THEN "open" ELSE "append")
        /\ docblocks' = res.docblocks
        /\ active' = res.active
  /\ li' = li + 1
  /\ UNCHANGED <<pc, xtractVars, regenVars, mainVars>>

XtractClose ==
  /\ pc = "xtract_1"
  /\ XtractLine("close")
XtractOpen ==
  /\ pc = "xtract_1"
  /\ XtractLine("open")
XtractAppend ==
  /\ pc = "xtract_1"
  /\ XtractLine("append")

XtractReturn ==
  /\ pc = "xtract_1"
  /\ li = Len(lines)
  /\ pc' = "xtract_done"
  /\ UNCHANGED <<li, active, docblocks, xtractVars, regenVars, mainVars>>

(***************************************************************************)
(* main                                                                    *)
(***************************************************************************)
ReadReadme ==
  /\ pc = "main"
  /\ readme' = readsafely(readmeFile)
  /\ pc' = "main_docs"
  /\ UNCHANGED <<li, active, docblocks, xtractVars, regenVars, readmeFile, diff>>

\* xtractUserDocz returns undefined when there is no block
MainNoDocs ==
  /\ pc = "main_docs"
  /\ docblocks = <<>>
  /\ pc' = "done"
  /\ UNCHANGED <<li, active, docblocks, xtractVars, regenVars, mainVars>>

\* a variant that tests !readme, true of the empty text as well
FirstGenGuard_falsy(rd) == rd = NullText \/ rd = <<>>

\* readme == null
FirstGenGuard(rd) == rd = NullText

MainFirstGen ==
  /\ pc = "main_docs"
  /\ docblocks # <<>>
  /\ FirstGenGuard(readme)
  /\ diff' = asDiff(docblocks)
  /\ pc' = "saveReadme"
  /\ UNCHANGED <<li, active, docblocks, xtractVars, regenVars, readmeFile, readme>>

MainRegen ==
  /\ pc = "main_docs"
  /\ docblocks # <<>>
  /\ ~FirstGenGuard(readme)
  /\ rlines' = SplitLines(readme)
  /\ chosen' = [i \in 1..Len(docblocks) |-> "undefined"]
  /\ perm' = <<>>
  /\ dists' = <<>>
  /\ min' = [dist |-> NullDist, data |-> <<>>]
  /\ stack' = <<>>
  /\ pc' = "gen_1"
  /\ UNCHANGED <<li, active, docblocks, xtractVars, data, nd, nr, dist, calls, branch,
                 mainVars>>

(***************************************************************************)
(* gen_1.  stack holds the 0-based loop variable of every frame that is in *)
(* its for loop; the frame that calls the callback has no loop variable.   *)
(***************************************************************************)
n == Len(docblocks)

Top == stack[Len(stack)]

SetTop(v) == [stack EXCEPT ![Len(stack)] = v]

Pop(s) == SubSeq(s, 1, Len(s) - 1)

\* if(perm.length == n) return cb(), and the first statements of find_min_1
GenCallback ==
  /\ pc = "gen_1"
  /\ Len(perm) = n
  /\ calls' = Append(calls, perm)
  /\ data' = PermData(docblocks, perm)
  /\ nd' = 0 /\ nr' = 0 /\ dist' = 0
  /\ branch' = "none"
  /\ pc' = "find_min_1"
  /\ UNCHANGED <<li, active, docblocks, xtractVars, rlines, chosen, perm, stack, min,
                 dists, mainVars>>

GenEnterLoop ==
  /\ pc = "gen_1"
  /\ Len(perm) # n
  /\ stack' = Append(stack, 0)
  /\ pc' = "gen_loop"
  /\ UNCHANGED <<li, active, docblocks, xtractVars, rlines, chosen, perm, data, nd, nr,
                 dist, min, dists, calls, branch, mainVars>>

\* if(chosen[i]) continue
GenSkip ==
  /\ pc = "gen_loop"
  /\ Top < n
  /\ chosen[Top + 1] = "true"
  /\ stack' = SetTop(Top + 1)
  /\ UNCHANGED <<pc, li, active, docblocks, xtractVars, rlines, chosen, perm, data, nd,
                 nr, dist, min, dists, calls, branch, mainVars>>

\* chosen[i] = true; perm.push(docblocks[i]); gen_1(cb)
GenChoose ==
  /\ pc = "gen_loop"
  /\ Top < n
  /\ chosen[Top + 1] # "true"
  /\ chosen' = [chosen EXCEPT ![Top + 1] = "true"]
  /\ perm' = Append(perm, Top + 1)
  /\ pc' = "gen_1"
  /\ UNCHANGED <<li, active, docblocks, xtractVars, rlines, stack, data, nd, nr, dist,
                 min, dists, calls, branch, mainVars>>

\* a variant that does not write chosen[i] = false
GenBacktrack_keepsChosen ==
  /\ pc = "gen_ret"
  /\ perm' = Pop(perm)
  /\ stack' = SetTop(Top + 1)
  /\ pc' = "gen_loop"
  /\ UNCHANGED <<li, active, docblocks, xtractVars, rlines, chosen, data, nd, nr, dist,
                 min, dists, calls, branch, mainVars>>

\* the recursive call has returned: perm.pop(); chosen[i] = false; i++
GenBacktrack ==
  /\ pc = "gen_ret"
  /\ perm' = Pop(perm)
  /\ chosen' = [chosen EXCEPT ![Top + 1] = "false"]
  /\ stack' = SetTop(Top + 1)
  /\ pc' = "gen_loop"
  /\ UNCHANGED <<li, active, docblocks, xtractVars, rlines, data, nd, nr, dist, min,
                 dists, calls, branch, mainVars>>

\* the for loop ends and this gen_1 returns, to gen_1 or to regen_readme
GenReturn ==
  /\ pc = "gen_loop"
  /\ ~(Top < n)
  /\ stack' = Pop(stack)
  /\ pc' = IF Len(stack) = 1 THEN "regen_diff" ELSE "gen_ret"
  /\ UNCHANGED <<li, active, docblocks, xtractVars, rlines, chosen, perm, data, nd, nr,
                 dist, min, dists, calls, branch, mainVars>>

(***************************************************************************)
(* find_min_1                                                              *)
(***************************************************************************)
AlignStep(kind) ==
  /\ InRange(data, rlines, nd, nr)
  /\ LET s == AlignIter(data, rlines, nd, nr, dist) IN
       /\ s.branch = kind
       /\ data' = s.data /\ nd' = s.nd /\ nr' = s.nr /\ dist' = s.dist
       /\ branch' = s.branch
       /\ pc' = IF kind \in {"lookahead", "nomatch"} /\ ShouldAbort(s.dist, min.dist)
                THEN "gen_ret" ELSE "find_min_1"
  /\ UNCHANGED <<li, active, docblocks, xtractVars, rlines, chosen, perm, stack, min,
                 dists, calls, mainVars>>

AlignMatch ==
  /\ pc = "find_min_1"
  /\ AlignStep("match")
AlignSkipData ==
  /\ pc = "find_min_1"
  /\ AlignStep("skipdata")
AlignInsertRef ==
  /\ pc = "find_min_1"
  /\ AlignStep("insert")
AlignLookAhead ==
  /\ pc = "find_min_1"
  /\ AlignStep("lookahead")
AlignNoMatch ==
  /\ pc = "find_min_1"
  /\ AlignStep("nomatch")

\* the while loop has ended: dists.push(dist); min.dist = dist; min.data = data
AlignFinish ==
  /\ pc = "find_min_1"
  /\ ~InRange(data, rlines, nd, nr)
  /\ dists' = Append(dists, dist)
  /\ min' = [dist |-> dist, data |-> data]
  /\ pc' = "gen_ret"
  /\ UNCHANGED <<li, active, docblocks, xtractVars, rlines, chosen, perm, stack, data,
                 nd, nr, dist, calls, branch, mainVars>>

(***************************************************************************)
(* regen_readme after the search, and saveReadme                           *)
(***************************************************************************)
RegenDiff ==
  /\ pc = "regen_diff"
  /\ diff' = diffLines(readme, Trim(JoinNL(min.data)))
  /\ pc' = "saveReadme"
  /\ UNCHANGED <<li, active, docblocks, xtractVars, regenVars, readmeFile, readme>>

SaveReadme ==
  /\ pc = "saveReadme"
  /\ readmeFile' = saveReadme(diff)
  /\ pc' = "done"
  /\ UNCHANGED <<li, active, docblocks, xtractVars, regenVars, readme, diff>>

Next ==
  \/ ReadReadme \/ MainNoDocs \/ MainFirstGen \/ MainRegen
  \/ GenCallback \/ GenEnterLoop \/ GenSkip \/ GenChoose \/ GenBacktrack \/ GenReturn
  \/ AlignMatch \/ AlignSkipData \/ AlignInsertRef \/ AlignLookAhead \/ AlignNoMatch
  \/ AlignFinish
  \/ RegenDiff \/ SaveReadme

Spec == Init /\ [][Next]_vars

NextXtract == XtractClose \/ XtractOpen \/ XtractAppend \/ XtractReturn

SpecXtract == InitXtract /\ [][NextXtract]_vars

(***************************************************************************)
(* Helpers of the properties.                                              *)
(***************************************************************************)
\* find_min_1 on data d, run until its while loop ends, with no early return
RECURSIVE Walk(_, _, _, _, _)
Walk(d, r, n_d, n_r, dst) ==
  IF InRange(d, r, n_d, n_r)
  THEN LET s == AlignIter(d, r, n_d, n_r, dst) IN Walk(s.data, r, s.nd, s.nr, s.dist)
  ELSE [dist |-> dst, data |-> d]

FullRun(p) == Walk(PermData(docblocks, p), rlines, 0, 0, 0)

\* the orderings of k blocks
Perms(k) == {p \in [1..k -> 1..k] : \A i \in 1..k : \A j \in 1..k : p[i] = p[j] => i = j}

LexLess(p, q) ==
  \E i \in 1..Len(p) : p[i] < q[i] /\ \A j \in 1..(i - 1) : p[j] = q[j]

RECURSIVE Factorial(_)
Factorial(k) == IF k <= 0 THEN 1 ELSE k * Factorial(k - 1)

\* a is b with zero or more elements deleted
RECURSIVE IsSubseq(_, _)
IsSubseq(a, b) ==
  IF a = <<>> THEN TRUE
  ELSE IF b = <<>> THEN FALSE
  ELSE IF Head(a) = Head(b) THEN IsSubseq(Tail(a), Tail(b))
  ELSE IsSubseq(a, Tail(b))

\* s without the elements at the positions in I
RECURSIVE Without(_, _, _)
Without(s, I, k) ==
  IF k > Len(s) THEN <<>>
  ELSE (IF k \in I THEN <<>> ELSE <<s[k]>>) \o Without(s, I, k + 1)

\* the elements of s at the positions in I, in order
Only(s, I) == Without(s, (1..Len(s)) \ I, 1)

(***************************************************************************)
(* C7.  xtract_1 appends one block per maximal run of consecutive          *)
(* documentation lines, in source order, each holding the payloads of its  *)
(* run; other lines only close the active block.                           *)
(***************************************************************************)
IsDocLine(l) == xtract_doc_comment_1(l) # NullText

RunStarts(ls) ==
  {i \in 1..Len(ls) : IsDocLine(ls[i]) /\ (i = 1 \/ ~IsDocLine(ls[i - 1]))}

RunEnd(ls, s) ==
  CHOOSE e \in s..Len(ls) :
    /\ \A k \in s..e : IsDocLine(ls[k])
    /\ (e = Len(ls) \/ ~IsDocLine(ls[e + 1]))

KthStart(ls, k) ==
  CHOOSE s \in RunStarts(ls) : Cardinality({t \in RunStarts(ls) : t < s}) = k - 1

RunBlock(ls, s) ==
  [k \in 1..(RunEnd(ls, s) - s + 1) |-> xtract_doc_comment_1(ls[s + k - 1])]

RunBlocks(ls) ==
  [k \in 1..Cardinality(RunStarts(ls)) |-> RunBlock(ls, KthStart(ls, k))]

C7_BlocksAreMaximalRuns ==
  pc = "xtract_done" =>
    /\ docblocks = prior \o RunBlocks(lines)
    /\ \A k \in 1..Len(docblocks) : docblocks[k] # <<>>
    /\ (RunStarts(lines) = {} => docblocks = prior)

C7_Witness ==
  /\ pc = "xtract_done"
  /\ prior # <<>>
  /\ Len(docblocks) = Len(prior) + 2
  /\ \E k \in 1..Len(docblocks) : Len(docblocks[k]) = 2 /\ docblocks[k][2] = <<>>
  /\ \E i \in 1..Len(lines) : ~IsDocLine(lines[i])

(***************************************************************************)
(* C8.  gen_1 calls the callback n! times, each time with perm holding     *)
(* every block once and never the same ordering twice, also when the       *)
(* scorer returns early; it then returns with perm empty and every         *)
(* chosen[i] false.  It terminates: the search is never stuck and every    *)
(* step of it lowers a natural number.                                     *)
(***************************************************************************)
C8_State ==
  /\ \A k \in 1..Len(calls) :
       /\ calls[k] \in Perms(n)
       /\ \A j \in 1..(k - 1) : calls[j] # calls[k]
  /\ pc = "find_min_1" => perm \in Perms(n) /\ calls[Len(calls)] = perm
  /\ pc = "regen_diff" =>
       /\ Len(calls) = Factorial(n)
       /\ perm = <<>>
       /\ \A i \in 1..n : chosen[i] = "false"

\* gen_1 and the callback are running
InSearch == pc \in {"gen_1", "gen_loop", "gen_ret", "find_min_1"}

RECURSIVE Power(_, _)
Power(b, e) == IF e <= 0 THEN 1 ELSE b * Power(b, e - 1)

RECURSIVE StackValue(_)
StackValue(k) ==
  IF k > Len(stack) THEN 0
  ELSE stack[k] * Power(n + 2, n + 1 - k) + StackValue(k + 1)

\* the loop variables read as one number, counting the i++ that is due
\* when a call has just returned
Progress ==
  StackValue(1) + (IF pc = "gen_ret" THEN Power(n + 2, n + 1 - Len(stack)) ELSE 0)

\* what is left to do before Progress grows again
Remaining ==
  LET scoring == Len(Flatten(docblocks)) + 2 * Len(rlines) IN
  IF pc = "find_min_1" THEN (Len(data) - nd) + (Len(rlines) - nr)
  ELSE IF pc = "gen_ret" THEN scoring + 2 * n + 2
  ELSE scoring + 1 + (2 * n - Len(perm) - Len(stack))

\* a number that every step of the search makes smaller
Rank ==
  (Power(n + 2, n + 2) - Progress) * (Len(Flatten(docblocks)) + 2 * Len(rlines) + 2 * n + 3)
    + Remaining

SearchStepsDown ==
  InSearch => /\ Rank >= 0
              /\ InSearch' => Rank' < Rank /\ Rank' >= 0

C8_ExhaustiveGeneration ==
  /\ []C8_State
  /\ [](InSearch => ENABLED Next)
  /\ [][SearchStepsDown]_vars

C8_Witness ==
  /\ pc = "regen_diff"
  /\ n = 3
  /\ Len(calls) = 6
  /\ Len(dists) < Len(calls)

(***************************************************************************)
(* C9.  An aligner step on two differing lines, neither empty nor special, *)
(* with no match at any offset 1..6 on either side, adds exactly 2 to the  *)
(* distance, advances both cursors by 1 and leaves data as it is.          *)
(***************************************************************************)
NoMatchCase ==
  /\ pc = "find_min_1"
  /\ nd < Len(data) /\ nr < Len(rlines)
  /\ data[nd + 1] # rlines[nr + 1]
  /\ data[nd + 1] # <<>> /\ ~isSplLine(data[nd + 1])
  /\ rlines[nr + 1] # <<>> /\ ~isSplLine(rlines[nr + 1])
  /\ \A i \in 1..6 :
       /\ ~(nr + i < Len(rlines) /\ rlines[nr + i + 1] = data[nd + 1])
       /\ ~(nd + i < Len(data) /\ data[nd + i + 1] = rlines[nr + 1])

C9_NoMatchCostsTwo ==
  [][NoMatchCase =>
       /\ dist' = dist + 2
       /\ nd' = nd + 1
       /\ nr' = nr + 1
       /\ data' = data]_vars

\* the step has been taken where the line does occur, but beyond the window
C9_Witness ==
  /\ branch = "nomatch"
  /\ nd = 1 /\ nr = 1 /\ dist = 2
  /\ Len(rlines) = 8
  /\ rlines[8] = data[1]

(***************************************************************************)
(* C10.  While find_min_1 runs, data is the flattened ordering with lines  *)
(* inserted; the inserted lines are empty or special README lines already  *)
(* passed by the cursor, in README order, and deleting them gives back the *)
(* flattened ordering.                                                     *)
(***************************************************************************)
InsertedAt(d, flat, passed, I) ==
  /\ Without(d, I, 1) = flat
  /\ \A k \in I : d[k] = <<>> \/ isSplLine(d[k])
  /\ IsSubseq(Only(d, I), passed)

DataIsOrderingPlusInserts(d, flat, passed) ==
  \E I \in SUBSET {k \in 1..Len(d) : d[k] = <<>> \/ isSplLine(d[k])} :
    InsertedAt(d, flat, passed, I)

C10_DataKeepsOrdering ==
  pc = "find_min_1" =>
    DataIsOrderingPlusInserts(data, PermData(docblocks, perm), SubSeq(rlines, 1, nr))

C10_Witness ==
  /\ pc = "find_min_1"
  /\ branch = "insert"
  /\ Len(data) = Len(PermData(docblocks, perm)) + 2
  /\ \E k \in 1..Len(data) : isSplLine(data[k])

(***************************************************************************)
(* Helpers of the properties about the whole run.                          *)
(***************************************************************************)
MinDist == SetMin({FullRun(p).dist : p \in Perms(n)})

MinPerms == {p \in Perms(n) : FullRun(p).dist = MinDist}

FirstMinPerm == CHOOSE p \in MinPerms : \A q \in MinPerms : q = p \/ LexLess(p, q)

LastMinPerm == CHOOSE p \in MinPerms : \A q \in MinPerms : q = p \/ LexLess(q, p)

\* the lines the run was asked to merge into the README
MergedLines == IF readme = NullText THEN Flatten(docblocks) ELSE min.data

\* the document written by saveReadme, as lines
OutLines == SplitLines(readmeFile)

Finished == pc = "done" /\ docblocks # <<>>

(***************************************************************************)
(* C1.  As claimed: the written document, split into lines, contains the   *)
(* lines of every block, empty ones included, in their order in the block. *)
(***************************************************************************)
C1_EveryBlockLineWritten ==
  Finished => \A k \in 1..n : IsSubseq(docblocks[k], OutLines)

(***************************************************************************)
(* C1, amended.  The written document is the trimmed text of a sequence of *)
(* lines that contains the blocks, whole and each in its own order, in     *)
(* some ordering of the blocks: only blanks at the two ends of the text    *)
(* are lost.                                                               *)
(***************************************************************************)
C1_BlockLinesWrittenUpToTrim ==
  Finished =>
    /\ readmeFile = Trim(JoinNL(MergedLines))
    /\ \E p \in Perms(n) : IsSubseq(PermData(docblocks, p), MergedLines)

C1_Witness ==
  /\ Finished
  /\ readme # NullText
  /\ \E k \in 1..Len(diff) : diff[k].added
  /\ \E k \in 1..Len(diff) : diff[k].removed
  /\ \E k \in 1..Len(diff) : ~diff[k].added /\ ~diff[k].removed
  /\ OutLines # min.data

(***************************************************************************)
(* C2.  When the README lines are the flattened lines of some ordering of  *)
(* the blocks, the search ends with distance 0 and the written document is *)
(* the README itself.                                                      *)
(***************************************************************************)
C2_NoOpStability ==
  (Finished /\ readme # NullText /\ \E p \in Perms(n) : PermData(docblocks, p) = rlines)
    => min.dist = 0 /\ readmeFile = readme

(***************************************************************************)
(* C3.  After the search min.dist is the least distance any ordering gets  *)
(* when scored to the end, min.data is the merged sequence of an ordering  *)
(* with that distance, and an evaluation is given up only for an ordering  *)
(* whose full distance is above the best so far.                           *)
(***************************************************************************)
C3_MinIsTrueMinimum ==
  /\ pc = "regen_diff" =>
       /\ min.dist = MinDist
       /\ \E p \in MinPerms : FullRun(p).data = min.data
  /\ (pc = "gen_ret" /\ min.dist # NullDist /\ dist # min.dist) =>
       /\ dist > min.dist
       /\ FullRun(calls[Len(calls)]).dist > min.dist

C3_Witness ==
  /\ pc = "regen_diff"
  /\ n = 3
  /\ Len(dists) < Len(calls)
  /\ min.dist > 0
  /\ \E k \in 1..Len(dists) : dists[k] > min.dist

(***************************************************************************)
(* C4.  As claimed: among orderings of the same least distance the one     *)
(* generated first is the one kept in min.data.                            *)
(***************************************************************************)
C4_FirstMinimumKept ==
  pc = "regen_diff" => min.data = FullRun(FirstMinPerm).data

(***************************************************************************)
(* C4, amended.  Orderings are generated in lexicographic order of block   *)
(* indices, and among orderings of the same least distance the one         *)
(* generated last is the one kept in min.data: an ordering whose distance  *)
(* equals the best so far replaces it.                                     *)
(***************************************************************************)
C4_LastMinimumKept ==
  /\ \A k \in 1..Len(calls) : \A j \in 1..(k - 1) : LexLess(calls[j], calls[k])
  /\ pc = "regen_diff" => min.data = FullRun(LastMinPerm).data

C4_Witness ==
  /\ pc = "regen_diff"
  /\ MinDist > 0
  /\ FirstMinPerm # LastMinPerm
  /\ FullRun(FirstMinPerm).data # FullRun(LastMinPerm).data
  /\ min.data = FullRun(LastMinPerm).data

(***************************************************************************)
(* C5.  Every special line of the README that is not a line of the blocks  *)
(* is in the written document, between the same text lines as before.      *)
(***************************************************************************)
TextLine(l) == l # <<>> /\ ~isSplLine(l)

PrevText(s, j) ==
  LET c == {k \in 1..(j - 1) : TextLine(s[k])} IN
  IF c = {} THEN NullText ELSE s[CHOOSE k \in c : \A m \in c : m <= k]

NextText(s, j) ==
  LET c == {k \in (j + 1)..Len(s) : TextLine(s[k])} IN
  IF c = {} THEN NullText ELSE s[SetMin(c)]

BlockLineSet == {Flatten(docblocks)[k] : k \in 1..Len(Flatten(docblocks))}

C5_SpecialLinesKept ==
  (Finished /\ readme # NullText) =>
    \A j \in 1..Len(rlines) :
      (isSplLine(rlines[j]) /\ rlines[j] \notin BlockLineSet) =>
        \E k \in 1..Len(OutLines) :
          /\ OutLines[k] = rlines[j]
          /\ PrevText(OutLines, k) = PrevText(rlines, j)
          /\ NextText(OutLines, k) = NextText(rlines, j)

(***************************************************************************)
(* C6.  As claimed: with the README absent, empty or blank there is no     *)
(* search, every line is fresh, and the document is the blocks in their    *)
(* extraction order.                                                       *)
(***************************************************************************)
FirstGeneration ==
  /\ calls = <<>>
  /\ dists = <<>>
  /\ \A k \in 1..Len(diff) : diff[k].fresh
  /\ readmeFile = Trim(JoinNL(Flatten(docblocks)))

C6_FirstGenWhenAbsentOrEmpty ==
  (Finished /\ readme \in {NullText, <<>>}) => FirstGeneration

(***************************************************************************)
(* C6, amended.  With the README absent there is no search, every line is  *)
(* fresh, and the document is the blocks in their extraction order,        *)
(* trimmed; a README that exists, be it empty or blank, is searched like   *)
(* any other.                                                              *)
(***************************************************************************)
C6_FirstGenOnlyWhenAbsent ==
  Finished =>
    /\ readme = NullText => FirstGeneration
    /\ readme # NullText => Len(calls) = Factorial(n) /\ dists # <<>>

C6_Witness ==
  /\ Finished
  /\ readme = NullText
  /\ n = 2
  /\ Len(diff) = 3
  /\ \A k \in 1..Len(diff) : diff[k].fresh
  /\ readmeFile = Trim(JoinNL(Flatten(docblocks)))
  /\ readmeFile # JoinNL(Flatten(docblocks))

====
